---- MODULE Spec2Model ----
(***************************************************************************)
(* A model of pubmed-oppty: the tiered analysis client of analyze.py and   *)
(* the query builder, affiliation matcher, record normalizer and export    *)
(* formatter of pubmed_utils.py.                                           *)
(*                                                                         *)
(* Python strings are sequences of one-character strings, so that strip,   *)
(* split, slicing and regular-expression search are computed, not assumed. *)
(* None is a one-element sequence that no string equals.                   *)
(***************************************************************************)
EXTENDS Integers, Sequences, FiniteSets, TLC

VARIABLES
    \* analyze_abstracts: environment, arguments, control state, I/O history
    api_key, base_url_env, model, pc, attempt, log, outcomes, response, result,
    \* normalize_affiliation: argument and returned value
    affil, company,
    \* build_query: arguments and returned value
    affiliations, disease_terms, custom_terms, query,
    \* efetch_medline and to_txt: the ids asked for, the MEDLINE records
    \* received, the records returned, the text, and how far the export is
    pmids, medline, records, txt, stage

analyzeVars == << api_key, base_url_env, model, pc, attempt, log, outcomes, response, result >>
affilVars == << affil, company >>
queryVars == << affiliations, disease_terms, custom_terms, query >>

exportVars == << pmids, medline, records, txt, stage >>

vars == << analyzeVars, affilVars, queryVars, exportVars >>

notAnalyzeVars == << affilVars, queryVars, exportVars >>
notAffilVars == << analyzeVars, queryVars, exportVars >>
notQueryVars == << analyzeVars, affilVars, exportVars >>
notExportVars == << analyzeVars, affilVars, queryVars >>

None == << "None" >>

\* A call that has not returned yet.
Pending == << "pending" >>

(***************************************************************************)
(* Python str helpers                                                      *)
(***************************************************************************)
Whitespace == {" ", "\t", "\n"}

IsSpace(c) == c \in Whitespace

RECURSIVE LStrip(_)
LStrip(s) == IF s # << >> /\ IsSpace(Head(s)) THEN LStrip(Tail(s)) ELSE s

RECURSIVE RStrip(_)
RStrip(s) ==
    IF s # << >> /\ IsSpace(s[Len(s)]) THEN RStrip(SubSeq(s, 1, Len(s) - 1)) ELSE s

\* str.strip()
Strip(s) == RStrip(LStrip(s))

\* s[:n]
Take(s, n) == SubSeq(s, 1, IF Len(s) < n THEN Len(s) ELSE n)

UpperChars == << "A", "B", "C", "D", "E", "F", "G", "H", "I", "J", "K", "L", "M",
                "N", "O", "P", "Q", "R", "S", "T", "U", "V", "W", "X", "Y", "Z" >>
LowerChars == << "a", "b", "c", "d", "e", "f", "g", "h", "i", "j", "k", "l", "m",
                "n", "o", "p", "q", "r", "s", "t", "u", "v", "w", "x", "y", "z" >>
Digits == {"0", "1", "2", "3", "4", "5", "6", "7", "8", "9"}

Range(f) == {f[i] : i \in DOMAIN f}

LowerMap == [c \in Range(UpperChars) |->
                LowerChars[CHOOSE i \in 1..Len(UpperChars) : UpperChars[i] = c]]

\* str.lower() of one character, and of a string
Lower(c) == IF c \in DOMAIN LowerMap THEN LowerMap[c] ELSE c

LowerStr(s) == [i \in 1..Len(s) |-> Lower(s[i])]

\* sep.join(parts)
RECURSIVE Join(_, _)
Join(sep, parts) ==
    IF parts = << >> THEN << >>
    ELSE IF Len(parts) = 1 THEN parts[1]
    ELSE parts[1] \o sep \o Join(sep, Tail(parts))

\* does sep stand at position i of s
StartsAt(s, sep, i) ==
    /\ i + Len(sep) - 1 <= Len(s)
    /\ \A k \in 1..Len(sep) : s[i + k - 1] = sep[k]

\* s.split(sep): the pieces between the occurrences of sep, left to right
RECURSIVE SplitFrom(_, _, _)
SplitFrom(s, sep, start) ==
    LET found == {i \in start..Len(s) : StartsAt(s, sep, i)}
    IN  IF found = {} THEN << SubSeq(s, start, Len(s)) >>
        ELSE LET i == CHOOSE m \in found : \A n \in found : m <= n
             IN  << SubSeq(s, start, i - 1) >> \o SplitFrom(s, sep, i + Len(sep))

Split(s, sep) == SplitFrom(s, sep, 1)

Contains(s, sub) == \E i \in 1..(Len(s) + 1) : StartsAt(s, sub, i)

EndsWith(s, suffix) == Len(s) >= Len(suffix) /\ StartsAt(s, suffix, Len(s) - Len(suffix) + 1)

Occurrences(s, sub) == Cardinality({i \in 1..Len(s) : StartsAt(s, sub, i)})

\* truth value of a str or None
Truthy(a) == a # None /\ a # << >>

(***************************************************************************)
(* Python re: search() of a compiled pattern in a string.  A pattern is a  *)
(* tree; Ends(r, s, i) is the set of positions at which a match of r that  *)
(* starts at position i of s can end, which is what backtracking explores. *)
(***************************************************************************)
Str(cs) == [t |-> "str", cs |-> cs]
In(lits, cats) == [t |-> "in", lits |-> lits, cats |-> cats]
WordBoundary == [t |-> "b"]
Opt(r) == [t |-> "opt", r |-> r]
Star(r) == [t |-> "star", r |-> r]
Plus(r) == [t |-> "plus", r |-> r]
Cat(rs) == [t |-> "cat", rs |-> rs]
Alt(rs) == [t |-> "alt", rs |-> rs]

\* \w
IsWordChar(c) == c \in Range(UpperChars) \cup Range(LowerChars) \cup Digits \cup {"_"}

IsWordAt(s, i) == i >= 1 /\ i <= Len(s) /\ IsWordChar(s[i])

\* \b between s[i-1] and s[i]
AtBoundary(s, i) == IsWordAt(s, i - 1) # IsWordAt(s, i)

\* A literal of the pattern at position i of s
StrMatches(cs, s, i) ==
    /\ i + Len(cs) - 1 <= Len(s)
    /\ \A k \in 1..Len(cs) : s[i + k - 1] = cs[k]

RECURSIVE Ends(_, _, _), CatEnds(_, _, _, _), StarEnds(_, _, _)
Ends(r, s, i) ==
    CASE r.t = "str"  -> IF StrMatches(r.cs, s, i) THEN {i + Len(r.cs)} ELSE {}
      [] r.t = "in"   -> IF /\ i <= Len(s)
                            /\ \/ s[i] \in r.lits
                               \/ "s" \in r.cats /\ IsSpace(s[i])
                               \/ "w" \in r.cats /\ IsWordChar(s[i])
                         THEN {i + 1} ELSE {}
      [] r.t = "b"    -> IF AtBoundary(s, i) THEN {i} ELSE {}
      [] r.t = "opt"  -> {i} \cup Ends(r.r, s, i)
      [] r.t = "star" -> StarEnds(r.r, s, {i})
      [] r.t = "plus" -> StarEnds(r.r, s, Ends(r.r, s, i))
      [] r.t = "cat"  -> CatEnds(r.rs, 1, s, {i})
      [] r.t = "alt"  -> UNION {Ends(r.rs[k], s, i) : k \in 1..Len(r.rs)}

CatEnds(rs, k, s, P) ==
    IF k > Len(rs) \/ P = {} THEN P
    ELSE CatEnds(rs, k + 1, s, UNION {Ends(rs[k], s, p) : p \in P})

StarEnds(r, s, P) ==
    LET N == P \cup UNION {Ends(r, s, p) : p \in P}
    IN  IF N = P THEN P ELSE StarEnds(r, s, N)

\* rx.search(s) with re.I: is there a match starting anywhere in s.  The
\* patterns are written in lower case, so the subject is lowercased.
Search(rx, s) ==
    LET low == LowerStr(s)
    IN  \E i \in 1..(Len(s) + 1) : Ends(rx, low, i) # {}

(***************************************************************************)
(* pubmed_utils.py: affiliation matching                                   *)
(***************************************************************************)
\* COMPANY_INDICATORS
COMPANY_INDICATORS ==
    Cat(<< WordBoundary, Alt(<< Str(<< "i", "n", "c" >>), Str(<< "i", "n", "c", "." >>),
    Str(<< "i", "n", "c", "o", "r", "p", "o", "r", "a", "t", "e", "d" >>), Str(<< "l", "t",
    "d" >>), Str(<< "l", "i", "m", "i", "t", "e", "d" >>), Str(<< "l", "l", "c" >>), Str(<<
    "a", "g" >>), Str(<< "g", "m", "b", "h" >>), Cat(<< Str(<< "s" >>), Opt(Str(<< "." >>)),
    Str(<< "a" >>), Opt(Str(<< "." >>)) >>), Str(<< "s", "a", "s" >>), Str(<< "p", "l", "c"
    >>), Str(<< "c", "o", "m", "p", "a", "n", "y" >>), Cat(<< Str(<< "p", "h", "a", "r",
    "m", "a" >>), Star(In({}, {"w"})) >>), Cat(<< Str(<< "p", "h", "a", "r", "m", "a", "c",
    "e", "u", "t", "i", "c", "a", "l" >>), Star(In({}, {"w"})) >>), Str(<< "d", "i", "a",
    "g", "n", "o", "s", "t", "i", "c", "s" >>), Str(<< "b", "i", "o", "t", "e", "c", "h"
    >>), Str(<< "r", "e", "s", "e", "a", "r", "c", "h" >>), Str(<< "h", "o", "l", "d", "i",
    "n", "g" >>), Str(<< "g", "r", "o", "u", "p" >>) >>), WordBoundary >>)

\* re.search(r"\bla\s+roche\b", clean, flags=re.I)
LA_ROCHE ==
    Cat(<< WordBoundary, Str(<< "l", "a" >>), Plus(In({}, {"s"})), Str(<< "r", "o", "c",
    "h", "e" >>), WordBoundary >>)

PHARMA_REGEX ==
    <<
       \* \bpfizer\b|\bpfizer\s+inc\b
       [rx |-> Cat(<< WordBoundary, Str(<< "p", "f", "i", "z", "e", "r" >>), Alt(<<
               WordBoundary, Cat(<< Plus(In({}, {"s"})), Str(<< "i", "n", "c" >>),
               WordBoundary >>) >>) >>),
        short |-> << "P", "f", "i", "z", "e", "r" >>],
       \* \bnovartis\b
       [rx |-> Cat(<< WordBoundary, Str(<< "n", "o", "v", "a", "r", "t", "i", "s" >>),
               WordBoundary >>),
        short |-> << "N", "o", "v", "a", "r", "t", "i", "s" >>],
       \* \bmerck\b|\bmsd\b|merck\s+sharp\s*&\s*doh\w*|\bmerck\s+kga?a?\b
       [rx |-> Alt(<< Cat(<< WordBoundary, Str(<< "m", "e", "r", "c", "k" >>), WordBoundary
               >>), Cat(<< WordBoundary, Str(<< "m", "s", "d" >>), WordBoundary >>), Cat(<<
               Str(<< "m", "e", "r", "c", "k" >>), Plus(In({}, {"s"})), Str(<< "s", "h",
               "a", "r", "p" >>), Star(In({}, {"s"})), Str(<< "&" >>), Star(In({}, {"s"})),
               Str(<< "d", "o", "h" >>), Star(In({}, {"w"})) >>), Cat(<< WordBoundary,
               Str(<< "m", "e", "r", "c", "k" >>), Plus(In({}, {"s"})), Str(<< "k", "g" >>),
               Opt(Str(<< "a" >>)), Opt(Str(<< "a" >>)), WordBoundary >>) >>),
        short |-> << "M", "e", "r", "c", "k" >>],
       \* glaxo\w*smith\w*|\bgsk\b
       [rx |-> Alt(<< Cat(<< Str(<< "g", "l", "a", "x", "o" >>), Star(In({}, {"w"})), Str(<<
               "s", "m", "i", "t", "h" >>), Star(In({}, {"w"})) >>), Cat(<< WordBoundary,
               Str(<< "g", "s", "k" >>), WordBoundary >>) >>),
        short |-> << "G", "S", "K" >>],
       \* \bsanofi\b
       [rx |-> Cat(<< WordBoundary, Str(<< "s", "a", "n", "o", "f", "i" >>), WordBoundary
               >>),
        short |-> << "S", "a", "n", "o", "f", "i" >>],
       \* astra\s*zeneca
       [rx |-> Cat(<< Str(<< "a", "s", "t", "r", "a" >>), Star(In({}, {"s"})), Str(<< "z",
               "e", "n", "e", "c", "a" >>) >>),
        short |-> << "A", "s", "t", "r", "a", "Z", "e", "n", "e", "c", "a" >>],
       \* johnson\s*&\s*johnson|\bj&j\b|\bjanssen\b
       [rx |-> Alt(<< Cat(<< Str(<< "j", "o", "h", "n", "s", "o", "n" >>), Star(In({},
               {"s"})), Str(<< "&" >>), Star(In({}, {"s"})), Str(<< "j", "o", "h", "n", "s",
               "o", "n" >>) >>), Cat(<< WordBoundary, Str(<< "j", "&", "j" >>), WordBoundary
               >>), Cat(<< WordBoundary, Str(<< "j", "a", "n", "s", "s", "e", "n" >>),
               WordBoundary >>) >>),
        short |-> << "J", "&", "J" >>],
       \* f\.?\s*hoffmann[-\s]*la[-\s]*roche
       [rx |-> Cat(<< Str(<< "f" >>), Opt(Str(<< "." >>)), Star(In({}, {"s"})), Str(<< "h",
               "o", "f", "f", "m", "a", "n", "n" >>), Star(In({"-"}, {"s"})), Str(<< "l",
               "a" >>), Star(In({"-"}, {"s"})), Str(<< "r", "o", "c", "h", "e" >>) >>),
        short |-> << "R", "o", "c", "h", "e" >>],
       \* \broche\s+diagnostics\b
       [rx |-> Cat(<< WordBoundary, Str(<< "r", "o", "c", "h", "e" >>), Plus(In({}, {"s"})),
               Str(<< "d", "i", "a", "g", "n", "o", "s", "t", "i", "c", "s" >>),
               WordBoundary >>),
        short |-> << "R", "o", "c", "h", "e" >>],
       \* \broche\s+(pharma\w*|holding|group)\b
       [rx |-> Cat(<< WordBoundary, Str(<< "r", "o", "c", "h", "e" >>), Plus(In({}, {"s"})),
               Alt(<< Cat(<< Str(<< "p", "h", "a", "r", "m", "a" >>), Star(In({}, {"w"}))
               >>), Str(<< "h", "o", "l", "d", "i", "n", "g" >>), Str(<< "g", "r", "o", "u",
               "p" >>) >>), WordBoundary >>),
        short |-> << "R", "o", "c", "h", "e" >>],
       \* \broche\s+(ag|gmbh|s\.?a\.?|sas|plc|ltd\.?|inc\.)\b
       [rx |-> Cat(<< WordBoundary, Str(<< "r", "o", "c", "h", "e" >>), Plus(In({}, {"s"})),
               Alt(<< Str(<< "a", "g" >>), Str(<< "g", "m", "b", "h" >>), Cat(<< Str(<< "s"
               >>), Opt(Str(<< "." >>)), Str(<< "a" >>), Opt(Str(<< "." >>)) >>), Str(<<
               "s", "a", "s" >>), Str(<< "p", "l", "c" >>), Cat(<< Str(<< "l", "t", "d" >>),
               Opt(Str(<< "." >>)) >>), Str(<< "i", "n", "c", "." >>) >>), WordBoundary >>),
        short |-> << "R", "o", "c", "h", "e" >>],
       \* \bgenentech\b
       [rx |-> Cat(<< WordBoundary, Str(<< "g", "e", "n", "e", "n", "t", "e", "c", "h" >>),
               WordBoundary >>),
        short |-> << "R", "o", "c", "h", "e" >>],
       \* \babbvie\b
       [rx |-> Cat(<< WordBoundary, Str(<< "a", "b", "b", "v", "i", "e" >>), WordBoundary
               >>),
        short |-> << "A", "b", "b", "V", "i", "e" >>],
       \* \bamgen\b
       [rx |-> Cat(<< WordBoundary, Str(<< "a", "m", "g", "e", "n" >>), WordBoundary >>),
        short |-> << "A", "m", "g", "e", "n" >>],
       \* bristol\s+myers\s+squibb|\bbms\b
       [rx |-> Alt(<< Cat(<< Str(<< "b", "r", "i", "s", "t", "o", "l" >>), Plus(In({},
               {"s"})), Str(<< "m", "y", "e", "r", "s" >>), Plus(In({}, {"s"})), Str(<< "s",
               "q", "u", "i", "b", "b" >>) >>), Cat(<< WordBoundary, Str(<< "b", "m", "s"
               >>), WordBoundary >>) >>),
        short |-> << "B", "r", "i", "s", "t", "o", "l", " ", "M", "y", "e", "r", "s", " ", "S", "q", "u", "i", "b", "b" >>],
       \* eli\s+lilly|\blilly\b
       [rx |-> Alt(<< Cat(<< Str(<< "e", "l", "i" >>), Plus(In({}, {"s"})), Str(<< "l", "i",
               "l", "l", "y" >>) >>), Cat(<< WordBoundary, Str(<< "l", "i", "l", "l", "y"
               >>), WordBoundary >>) >>),
        short |-> << "E", "l", "i", " ", "L", "i", "l", "l", "y" >>],
       \* \btakeda\b
       [rx |-> Cat(<< WordBoundary, Str(<< "t", "a", "k", "e", "d", "a" >>), WordBoundary
               >>),
        short |-> << "T", "a", "k", "e", "d", "a" >>],
       \* \bbayer\b
       [rx |-> Cat(<< WordBoundary, Str(<< "b", "a", "y", "e", "r" >>), WordBoundary >>),
        short |-> << "B", "a", "y", "e", "r" >>],
       \* boehringer\s+ingelheim
       [rx |-> Cat(<< Str(<< "b", "o", "e", "h", "r", "i", "n", "g", "e", "r" >>),
               Plus(In({}, {"s"})), Str(<< "i", "n", "g", "e", "l", "h", "e", "i", "m" >>)
               >>),
        short |-> << "B", "o", "e", "h", "r", "i", "n", "g", "e", "r", " ", "I", "n", "g", "e", "l", "h", "e", "i", "m" >>],
       \* novo\s+nordisk
       [rx |-> Cat(<< Str(<< "n", "o", "v", "o" >>), Plus(In({}, {"s"})), Str(<< "n", "o",
               "r", "d", "i", "s", "k" >>) >>),
        short |-> << "N", "o", "v", "o", " ", "N", "o", "r", "d", "i", "s", "k" >>],
       \* \bgilead\b
       [rx |-> Cat(<< WordBoundary, Str(<< "g", "i", "l", "e", "a", "d" >>), WordBoundary
               >>),
        short |-> << "G", "i", "l", "e", "a", "d" >>],
       \* \bmoderna\b
       [rx |-> Cat(<< WordBoundary, Str(<< "m", "o", "d", "e", "r", "n", "a" >>),
               WordBoundary >>),
        short |-> << "M", "o", "d", "e", "r", "n", "a" >>],
       \* \bregeneron\b
       [rx |-> Cat(<< WordBoundary, Str(<< "r", "e", "g", "e", "n", "e", "r", "o", "n" >>),
               WordBoundary >>),
        short |-> << "R", "e", "g", "e", "n", "e", "r", "o", "n" >>],
       \* \bvertex\b
       [rx |-> Cat(<< WordBoundary, Str(<< "v", "e", "r", "t", "e", "x" >>), WordBoundary
               >>),
        short |-> << "V", "e", "r", "t", "e", "x" >>]
    >>

\* for rx, short in PHARMA_REGEX: if rx.search(clean): return short
RECURSIVE FirstMatch(_, _)
FirstMatch(k, clean) ==
    IF k > Len(PHARMA_REGEX) THEN None
    ELSE IF Search(PHARMA_REGEX[k].rx, clean) THEN PHARMA_REGEX[k].short
    ELSE FirstMatch(k + 1, clean)

\* A variant that consults the pattern list before the exclusion.
normalize_affiliation_ListFirst(a) ==
    IF a = None \/ a = << >> THEN None
    ELSE LET clean == Strip(a)
             first == FirstMatch(1, clean)
         IN  IF first # None THEN first
             ELSE None

\* A variant whose exclusion ignores the company indicators.
normalize_affiliation_NoIndicators(a) ==
    IF a = None \/ a = << >> THEN None
    ELSE LET clean == Strip(a)
         IN  IF Search(LA_ROCHE, clean) THEN None
             ELSE FirstMatch(1, clean)

\* pubmed_utils.py 64-75
normalize_affiliation(a) ==
    IF a = None \/ a = << >> THEN None
    ELSE LET clean == Strip(a)
         IN  IF Search(LA_ROCHE, clean) /\ ~Search(COMPANY_INDICATORS, clean) THEN None
             ELSE FirstMatch(1, clean)

\* No call of normalize_affiliation in progress.
AffilIdle == affil = None /\ company = Pending

(***************************************************************************)
(* pubmed_utils.py: query building                                         *)
(***************************************************************************)
OR_SEP == << " ", "O", "R", " " >>
AND_SEP == << " ", "A", "N", "D", " " >>
AD_TAG == << "[", "A", "D", "]" >>
TA_TAG == << "[", "T", "i", "t", "l", "e", "/", "A", "b", "s", "t", "r", "a", "c", "t", "]" >>
CATCH_ALL == << "a", "l", "l", "[", "f", "i", "l", "t", "e", "r", "]" >>

\* if a and a.strip()
KeepTerm(a) == Truthy(a) /\ Truthy(Strip(a))

\* f'"{a}"[AD]'
AffPart(a) == << "\"" >> \o a \o << "\"" >> \o AD_TAG

\* f'({t})[Title/Abstract]'
TaPart(t) == << "(" >> \o t \o << ")" >> \o TA_TAG

\* "(" + " OR ".join(parts) + ")"
Clause(parts) == << "(" >> \o Join(OR_SEP, parts) \o << ")" >>

\* A variant that appends a clause for an empty category as well.
ClauseIfAnyAlways(parts) == << Clause(parts) >>

\* if parts: parts.append(clause)
ClauseIfAny(parts) == IF parts # << >> THEN << Clause(parts) >> ELSE << >>

\* [a for a in terms if a and a.strip()]
KeptTerms(terms) == SelectSeq(terms, KeepTerm)

\* pubmed_utils.py 80-99
build_query(affs, dterms, custom) ==
    LET kept_affs == KeptTerms(affs)
        kept_dterms == KeptTerms(dterms)
        pieces == Split(custom, << "," >>)
        aff_parts == [i \in 1..Len(kept_affs) |-> AffPart(kept_affs[i])]
        dt_parts == [i \in 1..Len(kept_dterms) |-> TaPart(kept_dterms[i])]
        extras == IF Truthy(custom)
                  THEN SelectSeq([i \in 1..Len(pieces) |-> Strip(pieces[i])], Truthy)
                  ELSE << >>
        parts == ClauseIfAny(aff_parts) \o ClauseIfAny(dt_parts)
                 \o ClauseIfAny([i \in 1..Len(extras) |-> TaPart(extras[i])])
    IN  Join(AND_SEP, IF parts = << >> THEN << CATCH_ALL >> ELSE parts)

\* No call of build_query in progress.
QueryIdle ==
    /\ affiliations = << >>
    /\ disease_terms = << >>
    /\ custom_terms = << >>
    /\ query = Pending

(***************************************************************************)
(* pubmed_utils.py: record normalization and text export                   *)
(*                                                                         *)
(* A MEDLINE record has string fields (None when the key is missing), list *)
(* fields (empty when the key is missing; the code reads both alike) and   *)
(* AD, which is missing, one string, or a list.                            *)
(***************************************************************************)
\* x or y, for strings
Or(x, y) == IF Truthy(x) THEN x ELSE y

AD_Missing == [kind |-> "missing", str |-> << >>, list |-> << >>]
AD_Str(a) == [kind |-> "str", str |-> a, list |-> << >>]
AD_List(l) == [kind |-> "list", str |-> << >>, list |-> l]

\* the first AID entry whose lowercased text contains "[doi]", pubmed_utils.py 135-139
RECURSIVE FirstDoi(_)
FirstDoi(aids) ==
    IF aids = << >> THEN None
    ELSE IF Contains(LowerStr(Head(aids)), << "[", "d", "o", "i", "]" >>)
         THEN Split(Head(aids), << " " >>)[1]
         ELSE FirstDoi(Tail(aids))

\* pubmed_utils.py 143-147
AffiliationsOf(ad) ==
    CASE ad.kind = "str"  -> << ad.str >>
      [] ad.kind = "list" -> ad.list
      [] OTHER            -> << >>

\* pubmed_utils.py 128-167: the item built from one MEDLINE record
NormalizeRecord(rec) ==
    LET authors == IF rec.FAU # << >> THEN rec.FAU ELSE rec.AU
        affs == AffiliationsOf(rec.AD)
        abstract == Or(rec.AB, << >>)
    IN  [ title        |-> Or(rec.TI, << >>),
          journal      |-> Or(rec.JT, Or(rec.TA, << >>)),
          date         |-> Or(rec.DP, << >>),
          pmid         |-> Or(rec.PMID, << >>),
          doi          |-> FirstDoi(rec.AID),
          authors      |-> authors,
          affiliations |-> affs,
          abstract     |-> abstract,
          raw          |-> rec,
          AU           |-> authors,
          AD           |-> affs,
          AB           |-> abstract ]

\* pubmed_utils.py 114-168, given what Medline.parse yields for the ids
efetch_medline(ids, parsed) ==
    IF Join(<< "," >>, ids) = << >> THEN << >>
    ELSE [i \in 1..Len(parsed) |-> NormalizeRecord(parsed[i])]

\* pubmed_utils.py 173-178
format_single_author(name, af) ==
    LET nm == Strip(Or(name, << >>))
        co == normalize_affiliation(af)
    IN  IF Truthy(co)
        THEN << "*", "*" >> \o nm \o << "*", "*", " ", "(" >> \o co \o << ")" >>
        ELSE nm

\* A variant that pairs each author with the affiliation at the same index
\* whenever there is one, whatever the two counts.
AuthorStrsPairAny(authors, affs) ==
    [i \in 1..Len(authors) |->
        format_single_author(authors[i], IF i <= Len(affs) THEN affs[i] ELSE None)]

\* pubmed_utils.py 200-208
AuthorStrs(authors, affs) ==
    IF authors # << >> /\ affs # << >> /\ Len(authors) = Len(affs)
    THEN [i \in 1..Len(authors) |-> format_single_author(authors[i], affs[i])]
    ELSE [i \in 1..Len(authors) |-> format_single_author(authors[i], None)]

PMID_PREFIX == << "P", "M", "I", "D", " " >>
DOI_PREFIX == << "D", "O", "I", " " >>
HEAD_SEP == << " ", "|", " " >>
AUTHORS_PREFIX == << "A", "u", "t", "h", "o", "r", "s", ":", " " >>
AUTHORS_SEP == << ";", " " >>
ABSTRACT_LINE == << "A", "b", "s", "t", "r", "a", "c", "t" >>

\* pubmed_utils.py 187-217: the lines one record adds
RecordLines(r) ==
    LET title == Strip(Or(r.title, << >>))
        journal == Strip(Or(r.journal, << >>))
        date == Strip(Or(r.date, << >>))
        pmid == Strip(Or(r.pmid, << >>))
        doi == Or(r.doi, None)
        segments == << journal, date, PMID_PREFIX \o pmid,
                       IF Truthy(doi) THEN DOI_PREFIX \o doi ELSE None >>
        head == Join(HEAD_SEP, SelectSeq(segments, Truthy))
        author_strs == AuthorStrs(r.authors, r.affiliations)
        abstract == Strip(Or(r.abstract, << >>))
    IN  << title >>
        \o (IF Truthy(head) THEN << head >> ELSE << >>)
        \o (IF author_strs # << >>
            THEN << AUTHORS_PREFIX \o Join(AUTHORS_SEP, author_strs) >> ELSE << >>)
        \o (IF Truthy(abstract) THEN << ABSTRACT_LINE, abstract >> ELSE << >>)
        \o << << >> >>

RECURSIVE AllLines(_)
AllLines(recs) == IF recs = << >> THEN << >> ELSE RecordLines(Head(recs)) \o AllLines(Tail(recs))

\* pubmed_utils.py 180-219
to_txt(recs) == Strip(Join(<< "\n" >>, AllLines(recs))) \o << "\n" >>

\* No export in progress.
ExportIdle ==
    /\ pmids = << >>
    /\ medline = << >>
    /\ records = << >>
    /\ txt = Pending
    /\ stage = "Idle"

(***************************************************************************)
(* analyze.py                                                              *)
(***************************************************************************)
DEFAULT_MODEL == "gpt-4o-mini"

\* r.text[:500]
BodyCap == 500

DefaultBaseUrl == << "a", "p", "i", "/", "v", "1" >>

\* os.getenv("OPENAI_BASE_URL", "https://api.openai.com/v1")
base_url == IF base_url_env = None THEN DefaultBaseUrl ELSE base_url_env

\* Exception classes: each class and its direct base class.
BaseClass ==
    [ Exception               |-> "object",
      OpenAIError             |-> "Exception",
      APIError                |-> "OpenAIError",
      APIStatusError          |-> "APIError",
      APIConnectionError      |-> "APIError",
      APITimeoutError         |-> "APIConnectionError",
      AuthenticationError     |-> "APIStatusError",
      RateLimitError          |-> "APIStatusError",
      BadRequestError         |-> "APIStatusError",
      HTTPError               |-> "Exception",
      ConnectError            |-> "HTTPError",
      RequestException        |-> "Exception",
      ConnectionError         |-> "RequestException",
      InvalidJSONError        |-> "RequestException",
      RequestsJSONDecodeError |-> "InvalidJSONError",
      ValueError              |-> "Exception",
      LookupError             |-> "Exception",
      KeyError                |-> "LookupError",
      IndexError              |-> "LookupError",
      AttributeError          |-> "Exception" ]

RECURSIVE IsInstance(_, _)
IsInstance(exc, cls) ==
    \/ exc = cls
    \/ exc # "object" /\ IsInstance(BaseClass[exc], cls)

\* The except clauses of the try statement around _sdk_call(), in order.
SdkHandlers ==
    << [classes |-> {"AuthenticationError", "RateLimitError", "APIError"}, body |-> "upstream"],
       [classes |-> {"APIConnectionError", "HTTPError"},                   body |-> "transport"],
       [classes |-> {"Exception"},                                         body |-> "unexpected"] >>

Catches(h, exc) == \E cls \in h.classes : IsInstance(exc, cls)

\* The body of the first except clause that catches exc.
Dispatch(handlers, exc) ==
    IF \E i \in 1..Len(handlers) : Catches(handlers[i], exc)
    THEN LET i == CHOOSE k \in 1..Len(handlers) :
                      /\ Catches(handlers[k], exc)
                      /\ \A j \in 1..(k - 1) : ~Catches(handlers[j], exc)
         IN  handlers[i].body
    ELSE "propagate"

\* The returned strings: a bracketed tag followed by the detail.
Returned(tag, detail) == [tag |-> tag, status |-> 0, detail |-> detail]

\* A variant that returns the whole response body.
ReturnedHttpWholeBody(status, text) ==
    [tag |-> "[OpenAI HTTP", status |-> status, detail |-> text]

\* f"[OpenAI HTTP {r.status_code}] {r.text[:500]}"
ReturnedHttp(status, text) ==
    [tag |-> "[OpenAI HTTP", status |-> status, detail |-> Take(text, BodyCap)]

NoResult == Returned("none", << >>)

\* The class of a returned string (AnalysisResult).
Classify(r) ==
    CASE r.tag = "[Config error]"     -> "config-error"
      [] r.tag = "[OpenAI error]"     -> "upstream-error"
      [] r.tag = "[OpenAI HTTP"       -> "upstream-error"
      [] r.tag = "[Connection error]" -> "connection-error"
      [] r.tag = "[Unexpected error]" -> "unexpected-error"
      [] r.tag = ""                   -> "success-text"
      [] OTHER                        -> "none"

\* A variant that tests "api_key is None" only.
HasCredentialIsNotNone(k) == k # None

\* if not api_key
HasCredential(k) == k # None /\ k # << >>

ApiKeys == {None, << >>, << "s", "k" >>}
BaseUrlEnvs == {None, << "h", "/", "v", "1", "/" >>}
Models == {"gpt-4o-mini", "gpt-4o", "gpt-x"}
Contents == { << "o", "k" >>, << " ", "o", "k", "\n" >> }

SdkExceptions ==
    {"AuthenticationError", "RateLimitError", "BadRequestError", "APIError",
     "APIConnectionError", "APITimeoutError", "HTTPError", "ConnectError",
     "AttributeError", "IndexError"}

\* Bodies of error responses: empty, short, and one character over the cap.
ShortBody == << "e", "r", "r" >>
LongBody == [i \in 1..(BodyCap + 1) |-> IF i = BodyCap + 1 THEN "z" ELSE "x"]
Bodies == {<< >>, ShortBody, LongBody}

\* What the decoded body of a response holds: no JSON at all, JSON without
\* "choices", an empty "choices" list, a null content, or a content string.
Decoded ==
    {[kind |-> k, content |-> << >>] :
        k \in {"invalid", "no_choices", "empty_choices", "null_content"}}
    \cup {[kind |-> "content", content |-> c] : c \in Contents}

NoResponse == [status |-> 0, text |-> << >>, data |-> [kind |-> "invalid", content |-> << >>]]

Responses ==
    {[status |-> s, text |-> t, data |-> [kind |-> "invalid", content |-> << >>]] :
        s \in {401, 500}, t \in Bodies}
    \cup {[status |-> s, text |-> ShortBody, data |-> d] : s \in {200, 304}, d \in Decoded}

\* requests.post fails before any response is received.
PostExceptions == {"ConnectionError", "RequestException"}

\* r.json() on a body that is not JSON raises requests' JSONDecodeError (a
\* RequestException) or, with requests before 2.27, a plain ValueError.
JsonExceptions == {"RequestsJSONDecodeError", "ValueError"}

\* No call of analyze_abstracts in progress.
AnalyzeIdle ==
    /\ api_key = None
    /\ base_url_env = None
    /\ model = DEFAULT_MODEL
    /\ pc = "Idle"
    /\ attempt = 0
    /\ log = << >>
    /\ outcomes = << >>
    /\ response = NoResponse
    /\ result = NoResult

AnalyzeInit ==
    /\ AffilIdle
    /\ QueryIdle
    /\ ExportIdle
    /\ api_key \in ApiKeys
    /\ base_url_env \in BaseUrlEnvs
    /\ model \in Models
    /\ pc = "Start"
    /\ attempt = 0
    /\ log = << >>
    /\ outcomes = << >>
    /\ response = NoResponse
    /\ result = NoResult

\* analyze.py 35-37: the credential check.
Start ==
    /\ pc = "Start"
    /\ IF HasCredential(api_key)
       THEN /\ pc' = "Construct"
            /\ UNCHANGED result
       ELSE /\ pc' = "Done"
            /\ result' = Returned("[Config error]", << >>)
    /\ UNCHANGED << api_key, base_url_env, model, attempt, log, outcomes, response >>
    /\ UNCHANGED notAnalyzeVars

\* analyze.py 45-46: httpx.Client(...) and OpenAI(...), outside any try.
ConstructClient ==
    /\ pc = "Construct"
    /\ \E ok \in BOOLEAN :
          IF ok THEN pc' = "Primary" /\ attempt' = 1
                ELSE pc' = "Raised" /\ UNCHANGED attempt
    /\ UNCHANGED << api_key, base_url_env, model, log, outcomes, response, result >>
    /\ UNCHANGED notAnalyzeVars

\* A variant that sleeps and retries after every transport error.
OnTransportErrorAlwaysRetry(att) == IF att <= 2 THEN "Sleep" ELSE "Fallback"

\* except (APIConnectionError, httpx.HTTPError): analyze.py 84-90
OnTransportError(att) == IF att = 1 THEN "Sleep" ELSE "Fallback"

\* analyze.py 79-96: one pass of the loop body, _sdk_call() and its handlers.
PrimaryAttempt ==
    /\ pc = "Primary"
    /\ log' = Append(log, "sdk")
    /\ \/ \E c \in Contents :
            /\ outcomes' = Append(outcomes, "ok")
            /\ result' = Returned("", Strip(c))
            /\ pc' = "Done"
       \/ \E exc \in SdkExceptions :
            /\ outcomes' = Append(outcomes, exc)
            /\ LET h == Dispatch(SdkHandlers, exc) IN
               CASE h = "upstream"   -> /\ result' = Returned("[OpenAI error]", << exc >>)
                                        /\ pc' = "Done"
                 [] h = "transport"  -> /\ pc' = OnTransportError(attempt)
                                        /\ UNCHANGED result
                 [] h = "unexpected" -> /\ result' = Returned("[Unexpected error]", << exc >>)
                                        /\ pc' = "Done"
                 [] OTHER            -> /\ pc' = "Raised"
                                        /\ UNCHANGED result
    /\ UNCHANGED << api_key, base_url_env, model, attempt, response >>
    /\ UNCHANGED notAnalyzeVars

\* analyze.py 85-87: time.sleep(1.0); continue
Sleep ==
    /\ pc = "Sleep"
    /\ log' = Append(log, "sleep")
    /\ attempt' = attempt + 1
    /\ pc' = "Primary"
    /\ UNCHANGED << api_key, base_url_env, model, outcomes, response, result >>
    /\ UNCHANGED notAnalyzeVars

\* The except clause of the try statement around _requests_fallback().
FallbackHandlers ==
    << [classes |-> {"RequestException"}, body |-> "connection"] >>

\* analyze.py 92-94; an exception no clause catches leaves analyze_abstracts:
\* the sibling clauses of the outer try do not guard an except body.
FallbackRaise(exc) ==
    IF Dispatch(FallbackHandlers, exc) = "connection"
    THEN /\ result' = Returned("[Connection error]", base_url)
         /\ pc' = "Done"
    ELSE /\ pc' = "Raised"
         /\ UNCHANGED result

\* r.status_code >= 400
IsErrorStatus(status) == status >= 400

\* analyze.py 58-76 and 89-94: _requests_fallback() inside its try.
Fallback ==
    /\ pc = "Fallback"
    /\ log' = Append(log, "post")
    /\ \/ \E exc \in PostExceptions :
            /\ response' = NoResponse
            /\ outcomes' = Append(outcomes, exc)
            /\ FallbackRaise(exc)
       \/ \E r \in Responses :
            /\ response' = r
            /\ IF IsErrorStatus(r.status)
               THEN /\ outcomes' = Append(outcomes, "status")
                    /\ result' = ReturnedHttp(r.status, r.text)
                    /\ pc' = "Done"
               ELSE CASE r.data.kind = "invalid" ->
                             \E exc \in JsonExceptions :
                                 /\ outcomes' = Append(outcomes, exc)
                                 /\ FallbackRaise(exc)
                      [] r.data.kind = "no_choices" ->
                             /\ outcomes' = Append(outcomes, "KeyError")
                             /\ FallbackRaise("KeyError")
                      [] r.data.kind = "empty_choices" ->
                             /\ outcomes' = Append(outcomes, "IndexError")
                             /\ FallbackRaise("IndexError")
                      [] r.data.kind = "null_content" ->
                             /\ outcomes' = Append(outcomes, "AttributeError")
                             /\ FallbackRaise("AttributeError")
                      [] OTHER ->
                             /\ outcomes' = Append(outcomes, "ok")
                             /\ result' = Returned("", Strip(r.data.content))
                             /\ pc' = "Done"
    /\ UNCHANGED << api_key, base_url_env, model, attempt >>
    /\ UNCHANGED notAnalyzeVars

AnalyzeNext ==
    \/ Start
    \/ ConstructClient
    \/ PrimaryAttempt
    \/ Sleep
    \/ Fallback

SpecAnalyze == AnalyzeInit /\ [][AnalyzeNext]_vars

(***************************************************************************)
(* Calls of normalize_affiliation                                          *)
(***************************************************************************)
\* The most fragments an affiliation string is made of.
MaxParts == 2

\* Affiliation strings are concatenations of these fragments.
Fragments ==
    {  << "F", ".", " ", "H", "o", "f", "f", "m", "a", "n", "n", "-", "L", "a", " ", "R", "o", "c", "h", "e", " ", "A", "G" >>,
       << "f", ".", " ", "h", "o", "f", "f", "m", "a", "n", "n", "-", "l", "a", " ", "r", "o", "c", "h", "e", " ", "a", "g" >>,
       << "L", "a", " ", "R", "o", "c", "h", "e" >>,
       << "P", "f", "i", "z", "e", "r", ",", " " >>,
       << ",", " " >>,
       << "x" >>,
       << " ", "P", "h", "a", "r", "m", "a" >> }

RECURSIVE Concats(_)
Concats(n) ==
    IF n = 0 THEN {<< >>}
    ELSE LET P == Concats(n - 1) IN P \cup {p \o f : p \in P, f \in Fragments}

AffilInputs == Concats(MaxParts) \cup {None}

AffilInit ==
    /\ AnalyzeIdle
    /\ QueryIdle
    /\ ExportIdle
    /\ affil \in AffilInputs
    /\ company = Pending

\* A call normalize_affiliation(affil) returns.
NormalizeAffiliation ==
    /\ company = Pending
    /\ company' = normalize_affiliation(affil)
    /\ UNCHANGED affil
    /\ UNCHANGED notAffilVars

AffilNext == NormalizeAffiliation

SpecAffil == AffilInit /\ [][AffilNext]_vars

(***************************************************************************)
(* Calls of build_query                                                    *)
(***************************************************************************)
\* The most terms in a list of affiliations or of disease terms.
MaxTerms == 2

AffTerms == { << >>, << "P" >>, << " ", "R", "\t" >> }
DiseaseTerms == { << " " >>, << "g", " ", "d" >>, << "f", " " >> }
CustomStrings ==
    { << >>, << " " >>, << "c" >>, << " ", "c", " ", ",", " ", ",", "d", " ", "e" >>, << ",", " ", "," >> }

\* The sequences of at most n elements of S
RECURSIVE SeqsUpTo(_, _)
SeqsUpTo(S, n) ==
    IF n = 0 THEN {<< >>}
    ELSE LET P == SeqsUpTo(S, n - 1) IN P \cup {Append(p, x) : p \in P, x \in S}

QueryInit ==
    /\ AnalyzeIdle
    /\ AffilIdle
    /\ ExportIdle
    /\ affiliations \in SeqsUpTo(AffTerms, MaxTerms)
    /\ disease_terms \in SeqsUpTo(DiseaseTerms, MaxTerms)
    /\ custom_terms \in CustomStrings
    /\ query = Pending

\* A call build_query(affiliations, disease_terms, custom_terms) returns.
BuildQuery ==
    /\ query = Pending
    /\ query' = build_query(affiliations, disease_terms, custom_terms)
    /\ UNCHANGED << affiliations, disease_terms, custom_terms >>
    /\ UNCHANGED notQueryVars

QueryNext == BuildQuery

SpecQuery == QueryInit /\ [][QueryNext]_vars

(***************************************************************************)
(* Search results exported: efetch_medline, then to_txt                    *)
(***************************************************************************)
\* The most author names, and the most affiliation entries, of a record.
MaxAuthors == 2
MaxAffils == 3

Names == { << "A", "n", "n" >>, << " ", "B", "o", " " >> }
AffilPool == { << "P", "f", "i", "z", "e", "r" >>, << "R", "o", "c", "h", "e", " ", "A", "G" >>, << "U", "n", "i" >> }

MedlineRecord(fau, au, ad, ab) ==
    [ TI |-> << "T" >>, JT |-> None, TA |-> << "J" >>, DP |-> << "2", "0" >>,
      PMID |-> << "7" >>, AID |-> << << "x", " ", "[", "p", "i", "i", "]" >>, << "1", "0", ".", "1", "/", "z", " ", "[", "D", "O", "I", "]" >> >>,
      FAU |-> fau, AU |-> au, AD |-> ad, AB |-> ab ]

AuFallback == << << "C", "y" >> >>

\* FAU and AU of a record: both, AU alone, or neither.
AuthorFields ==
    {<< fau, AuFallback >> : fau \in SeqsUpTo(Names, MaxAuthors)} \cup {<< << >>, << >> >>}

MedlineRecords ==
    { MedlineRecord(names[1], names[2], ad, << "a" >>) :
        names \in AuthorFields,
        ad \in {AD_Missing} \cup {AD_Str(a) : a \in AffilPool}
                \cup {AD_List(l) : l \in SeqsUpTo(AffilPool, MaxAffils)} }

\* A second record of a batch.
OtherRecord ==
    MedlineRecord(<< << "D", "e", "e" >> >>, << >>, AD_List(<< << "G", "e", "n", "e", "n", "t", "e", "c", "h" >> >>), None)

\* A record with the given citation fields: journal, date, identifier and
\* article identifiers, each of which MEDLINE may leave out.
CitationRecord(ta, dp, pmid, aid, fau) ==
    [ TI |-> << "T" >>, JT |-> None, TA |-> ta, DP |-> dp, PMID |-> pmid, AID |-> aid,
      FAU |-> fau, AU |-> << >>, AD |-> AD_Missing, AB |-> << "a" >> ]

CitationRecords ==
    { CitationRecord(ta, dp, pmid, aid, fau) :
        ta \in {None, << "J" >>},
        dp \in {None, << "2", "0" >>},
        pmid \in {None, << " " >>, << "7" >>},
        aid \in {<< >>, << << "1", "0", ".", "1", "/", "z", " ", "[", "d", "o", "i", "]" >> >>},
        fau \in {<< >>, << << "A", "n", "n" >> >>} }

\* What Medline.parse may yield: one record, or two.
MedlineBatches ==
    {<< r >> : r \in MedlineRecords \cup CitationRecords}
    \cup {<< r, OtherRecord >> : r \in MedlineRecords \cup CitationRecords}

ExportInit ==
    /\ AnalyzeIdle
    /\ AffilIdle
    /\ QueryIdle
    /\ pmids \in {<< >>, << << "7" >> >>}
    /\ medline = << >>
    /\ records = << >>
    /\ txt = Pending
    /\ stage = "Search"

\* records = efetch_medline(pmids), app.py 104
EfetchMedline ==
    /\ stage = "Search"
    /\ \E parsed \in MedlineBatches :
          /\ medline' = (IF Join(<< "," >>, pmids) = << >> THEN << >> ELSE parsed)
          /\ records' = efetch_medline(pmids, parsed)
    /\ stage' = "Fetched"
    /\ UNCHANGED << pmids, txt >>
    /\ UNCHANGED notExportVars

\* text_blob = to_txt(records), app.py 106
ToTxt ==
    /\ stage = "Fetched"
    /\ txt' = to_txt(records)
    /\ stage' = "Rendered"
    /\ UNCHANGED << pmids, medline, records >>
    /\ UNCHANGED notExportVars

ExportNext == EfetchMedline \/ ToTxt

SpecExport == ExportInit /\ [][ExportNext]_vars

(***************************************************************************)
(* Properties of analyze_abstracts                                         *)
(***************************************************************************)
ResultClasses ==
    {"success-text", "config-error", "upstream-error", "connection-error", "unexpected-error"}

\* Connectivity/transport errors of the primary attempt.
IsConnectivity(o) ==
    /\ o \in DOMAIN BaseClass
    /\ IsInstance(o, "APIConnectionError") \/ IsInstance(o, "HTTPError")

\* Authentication, rate-limit and other API errors of the primary attempt.
IsApiError(o) == o \in DOMAIN BaseClass /\ IsInstance(o, "APIError")

Count(seq, x) == Cardinality({i \in 1..Len(seq) : seq[i] = x})

FallbackDone == log # << >> /\ log[Len(log)] = "post"

LastOutcome == outcomes[Len(outcomes)]

\* C1: analyze_abstracts never propagates an exception: every run that ends,
\* ends with a returned string of one of the five classes, whatever happens at
\* client construction, at either primary attempt or in the fallback.
C1_NeverPropagates ==
    /\ pc # "Raised"
    /\ pc = "Done" => Classify(result) \in ResultClasses

\* C2: a connectivity error at the first primary attempt leads to the sleep
\* and a second attempt, never to a result; a connectivity error at the second
\* attempt as well leads to the fallback request.
C2_ConnectivityRetriedThenFallback ==
    /\ (Len(outcomes) >= 1 /\ IsConnectivity(outcomes[1]))
          => (pc = "Sleep" \/ Count(log, "sleep") = 1)
    /\ (Len(outcomes) >= 2 /\ IsConnectivity(outcomes[1]) /\ IsConnectivity(outcomes[2]))
          => (pc = "Fallback" \/ Count(log, "post") = 1)

\* C3: the I/O of a run is a prefix of <<attempt, sleep, attempt, fallback>>;
\* the second attempt and the fallback come only after connectivity errors of
\* every earlier attempt; an authentication, rate-limit or API error ends the
\* run at once with upstream-error.
C3_RetryFallbackOrder ==
    /\ \E n \in 0..4 : log = SubSeq(<< "sdk", "sleep", "sdk", "post" >>, 1, n)
    /\ Count(log, "sleep") = 1 => IsConnectivity(outcomes[1])
    /\ Count(log, "sdk") = 2 => IsConnectivity(outcomes[1])
    /\ Count(log, "post") = 1 => IsConnectivity(outcomes[1]) /\ IsConnectivity(outcomes[2])
    /\ \A k \in 1..Len(outcomes) :
          (k <= 2 /\ IsApiError(outcomes[k]))
            => /\ pc = "Done"
               /\ Classify(result) = "upstream-error"
               /\ Len(outcomes) = k
               /\ Count(log, "sdk") = k
               /\ Count(log, "sleep") = k - 1
               /\ Count(log, "post") = 0

C3_Witness ==
    /\ pc = "Done"
    /\ log = << "sdk", "sleep", "sdk" >>
    /\ outcomes = << "ConnectError", "RateLimitError" >>

\* C4: without a credential (unset or empty) the run returns config-error and
\* performs no primary attempt, no sleep and no fallback request.
C4_NoCredentialNoNetwork ==
    (api_key \in {None, << >>} /\ pc # "Start")
      => /\ pc = "Done"
         /\ Classify(result) = "config-error"
         /\ log = << >>
         /\ outcomes = << >>

C4_Witness == api_key = << >> /\ pc = "Done" /\ model = "gpt-4o"

\* The detail is the body cut to at most BodyCap characters.
IsTruncationOf(detail, text) ==
    /\ Len(detail) = (IF Len(text) > 500 THEN 500 ELSE Len(text))
    /\ \A i \in 1..Len(detail) : detail[i] = text[i]

\* What C5 says of a finished fallback, given which statuses count as failures.
FallbackClassFixed(Failed(_)) ==
    FallbackDone =>
      /\ (response # NoResponse /\ Failed(response.status))
            => /\ pc = "Done"
               /\ Classify(result) = "upstream-error"
               /\ result.status = response.status
               /\ IsTruncationOf(result.detail, response.text)
      /\ (response = NoResponse /\ LastOutcome \in PostExceptions)
            => /\ pc = "Done"
               /\ Classify(result) = "connection-error"
               /\ result.detail = base_url
      /\ (pc = "Done" /\ Classify(result) = "success-text")
            => /\ response # NoResponse
               /\ ~Failed(response.status)
               /\ response.data.kind = "content"
               /\ result.detail = Strip(response.data.content)
      /\ pc = "Done"
            => Classify(result) \in {"success-text", "upstream-error", "connection-error"}

NotSuccessStatus(status) == ~(200 <= status /\ status < 300)

ErrorStatus(status) == status >= 400

\* C5 as stated: every non-success HTTP status of the fallback response yields
\* upstream-error with the truncated body, a transport failure yields
\* connection-error naming the base URL, only a successful response yields
\* success-text.
C5_Original == FallbackClassFixed(NotSuccessStatus)

\* C5 amended: the same, for the statuses of 400 and above; a response with a
\* status below 400 is read as a completion whatever its status.
C5_FallbackClassFixed == FallbackClassFixed(ErrorStatus)

C5_Witness ==
    /\ pc = "Done"
    /\ FallbackDone
    /\ response.status = 500
    /\ Len(response.text) > 500
    /\ base_url # DefaultBaseUrl

(***************************************************************************)
(* Properties of normalize_affiliation                                     *)
(***************************************************************************)
\* The words of a string: maximal runs of word characters, by start position.
WordStarts(s) == {i \in 1..Len(s) : IsWordChar(s[i]) /\ ~IsWordAt(s, i - 1)}

WordEnd(s, i) ==
    CHOOSE j \in i..Len(s) : (\A k \in i..j : IsWordChar(s[k])) /\ ~IsWordAt(s, j + 1)

WordFrom(s, i) == LowerStr(SubSeq(s, i, WordEnd(s, i)))

\* The word "la", whitespace only, then the word "roche", in any letter case.
HasLaRocheTokens(s) ==
    \E i, j \in WordStarts(s) :
        /\ WordFrom(s, i) = << "l", "a" >>
        /\ WordFrom(s, j) = << "r", "o", "c", "h", "e" >>
        /\ j > WordEnd(s, i) + 1
        /\ \A k \in (WordEnd(s, i) + 1)..(j - 1) : IsSpace(s[k])

IndicatorWords ==
    { << "i", "n", "c" >>,
      << "i", "n", "c", "o", "r", "p", "o", "r", "a", "t", "e", "d" >>,
      << "l", "t", "d" >>,
      << "l", "i", "m", "i", "t", "e", "d" >>,
      << "l", "l", "c" >>,
      << "a", "g" >>,
      << "g", "m", "b", "h" >>,
      << "s", "a" >>,
      << "s", "a", "s" >>,
      << "p", "l", "c" >>,
      << "c", "o", "m", "p", "a", "n", "y" >>,
      << "d", "i", "a", "g", "n", "o", "s", "t", "i", "c", "s" >>,
      << "b", "i", "o", "t", "e", "c", "h" >>,
      << "r", "e", "s", "e", "a", "r", "c", "h" >>,
      << "h", "o", "l", "d", "i", "n", "g" >>,
      << "g", "r", "o", "u", "p" >> }

\* A corporate-indicator word: one of IndicatorWords, a word that begins with
\* "pharma", or "s.a".
HasIndicatorWord(s) ==
    \E i \in WordStarts(s) :
        LET w == WordFrom(s, i)
            e == WordEnd(s, i)
        IN  \/ w \in IndicatorWords
            \/ Len(w) >= 6 /\ SubSeq(w, 1, 6) = << "p", "h", "a", "r", "m", "a" >>
            \/ /\ w = << "s" >>
               /\ e + 2 <= Len(s)
               /\ s[e + 1] = "."
               /\ e + 2 \in WordStarts(s)
               /\ WordFrom(s, e + 2) = << "a" >>

\* text occurs in s, in any letter case
ContainsCI(s, text) ==
    \E i \in 1..(Len(s) - Len(text) + 1) :
        LowerStr(SubSeq(s, i, i + Len(text) - 1)) = LowerStr(text)

HoffmannLaRocheAG == << "F", ".", " ", "H", "o", "f", "f", "m", "a", "n", "n", "-", "L", "a", " ", "R", "o", "c", "h", "e", " ", "A", "G" >>

Roche == << "R", "o", "c", "h", "e" >>

Returned_normalize == company # Pending /\ affil # None

\* C7: a string with the token sequence "la roche" and no corporate-indicator
\* word normalizes to absent, also when a rule of the pattern list (Pfizer,
\* Genentech, ...) matches the string.
C7_LaRocheExclusionFirst ==
    (Returned_normalize /\ HasLaRocheTokens(affil) /\ ~HasIndicatorWord(affil))
      => company = None

C7_Witness ==
    /\ Returned_normalize
    /\ HasLaRocheTokens(affil)
    /\ ~HasIndicatorWord(affil)
    /\ Search(PHARMA_REGEX[1].rx, affil)
    /\ company = None

\* C8 as stated: every string in which "F. Hoffmann-La Roche AG" occurs, in
\* any letter case and with any surrounding text, normalizes to "Roche".
C8_Original ==
    (Returned_normalize /\ ContainsCI(affil, HoffmannLaRocheAG)) => company = Roche

\* The rules of the list that come before the first Roche rule.
EarlierRules == {k \in 1..Len(PHARMA_REGEX) :
                    \A j \in 1..k : PHARMA_REGEX[j].short # Roche}

EarlierRuleMatches(s) == \E k \in EarlierRules : Search(PHARMA_REGEX[k].rx, Strip(s))

\* C8 amended: a string in which "F. Hoffmann-La Roche AG" occurs normalizes
\* to "Roche" when it has a corporate-indicator word (the AG itself, unless a
\* word character follows it) and no rule listed before the Roche rules
\* matches it; with an earlier rule matching it normalizes to that rule's
\* organization, and without an indicator word to absent.
C8_HoffmannLaRocheAG ==
    (Returned_normalize /\ ContainsCI(affil, HoffmannLaRocheAG))
      => /\ (HasIndicatorWord(affil) /\ ~EarlierRuleMatches(affil)) => company = Roche
         /\ (HasIndicatorWord(affil) /\ EarlierRuleMatches(affil))
               => (company # Roche /\ company # None)
         /\ ~HasIndicatorWord(affil) => company = None

C8_Witness ==
    /\ Returned_normalize
    /\ ContainsCI(affil, HoffmannLaRocheAG)
    /\ Len(affil) > Len(HoffmannLaRocheAG)
    /\ affil[1] = "f"
    /\ company = Roche

(***************************************************************************)
(* Properties of build_query                                               *)
(***************************************************************************)
\* A term that is neither empty nor whitespace only.
NonBlank(t) == \E i \in 1..Len(t) : ~IsSpace(t[i])

NonBlankTerms(terms) == SelectSeq(terms, NonBlank)

\* The three categories with the terms they still have, in the order of the
\* arguments.
Categories ==
    << [terms |-> NonBlankTerms(affiliations), tag |-> AD_TAG],
       [terms |-> NonBlankTerms(disease_terms), tag |-> TA_TAG],
       [terms |-> NonBlankTerms(Split(custom_terms, << "," >>)), tag |-> TA_TAG] >>

HasTerms(c) == c.terms # << >>

LiveCategories == SelectSeq(Categories, HasTerms)

\* piece is "(" item OR item ... ")" with one tagged item for each term of c.
IsClauseOf(piece, c) ==
    /\ Len(piece) >= 2
    /\ piece[1] = "("
    /\ piece[Len(piece)] = ")"
    /\ LET items == Split(SubSeq(piece, 2, Len(piece) - 1), OR_SEP)
       IN  /\ Len(items) = Len(c.terms)
           /\ \A k \in 1..Len(items) :
                 /\ EndsWith(items[k], c.tag)
                 /\ Contains(items[k], Strip(c.terms[k]))

\* C9: the query is never empty; it is the catch-all clause when no category
\* has a term left, and otherwise one parenthesized OR-clause for each
\* category with a term left, in the order affiliation, disease, custom,
\* joined by " AND ".
C9_OneClausePerCategory ==
    query # Pending =>
      /\ query # << >>
      /\ IF LiveCategories = << >>
         THEN query = CATCH_ALL
         ELSE LET pieces == Split(query, AND_SEP)
              IN  /\ Len(pieces) = Len(LiveCategories)
                  /\ \A c \in 1..Len(pieces) : IsClauseOf(pieces[c], LiveCategories[c])

C9_Witness ==
    /\ query # Pending
    /\ Len(LiveCategories) = 3
    /\ Len(Categories[1].terms) < Len(affiliations)
    /\ Len(Categories[2].terms) = 2

C9_WitnessCatchAll ==
    /\ query = CATCH_ALL
    /\ Len(affiliations) = 2
    /\ custom_terms # << >>

\* What C10 says of the terms of the query, given how a kept affiliation or
\* disease term is shown.
TermsAppear(Shown(_)) ==
    query # Pending =>
      /\ \A i \in 1..Len(affiliations) :
            NonBlank(affiliations[i]) => Contains(query, AffPart(Shown(affiliations[i])))
      /\ \A i \in 1..Len(disease_terms) :
            NonBlank(disease_terms[i]) => Contains(query, TaPart(Shown(disease_terms[i])))
      /\ \A i \in 1..Len(Categories[3].terms) :
            Contains(query, TaPart(Strip(Categories[3].terms[i])))
      /\ Occurrences(query, AD_TAG) = Len(Categories[1].terms)
      /\ Occurrences(query, TA_TAG) = Len(Categories[2].terms) + Len(Categories[3].terms)

Verbatim(t) == t

\* C10: every affiliation term, disease term and comma-split custom term
\* appears in the query with its leading and trailing whitespace removed, and
\* an empty or whitespace-only term contributes nothing.
C10_TermsTrimmed == TermsAppear(Strip)

\* What the code does instead: blank terms are dropped from all three inputs,
\* custom terms appear trimmed, affiliation and disease terms as given.
C10_AsCoded == TermsAppear(Verbatim)

(***************************************************************************)
(* Properties of the export                                                *)
(***************************************************************************)
\* The author names of a MEDLINE record (N of them).
AuthorNames(rec) == IF rec.FAU # << >> THEN rec.FAU ELSE rec.AU

\* The number M of affiliation entries: a single string counts as one.
AffilCount(rec) ==
    CASE rec.AD.kind = "str"  -> 1
      [] rec.AD.kind = "list" -> Len(rec.AD.list)
      [] OTHER                -> 0

AffilEntry(rec, i) == IF rec.AD.kind = "str" THEN rec.AD.str ELSE rec.AD.list[i]

Bare(name) == Strip(name)

Decorated(name, org) ==
    << "*", "*" >> \o Strip(name) \o << "*", "*", " ", "(" >> \o org \o << ")" >>

\* How author i of rec is to be rendered: against affiliation i when N = M,
\* as the bare name otherwise.
ExpectedAuthor(rec, i) ==
    LET name == AuthorNames(rec)[i]
    IN  IF Len(AuthorNames(rec)) = AffilCount(rec)
        THEN LET org == normalize_affiliation(AffilEntry(rec, i))
             IN  IF org = None THEN Bare(name) ELSE Decorated(name, org)
        ELSE Bare(name)

IsAuthorsLine(line) == StartsAt(line, AUTHORS_PREFIX, 1)

AuthorsLines == SelectSeq(Split(txt, << "\n" >>), IsAuthorsLine)

HasAuthors(rec) == AuthorNames(rec) # << >>

RecordsWithAuthors == SelectSeq(medline, HasAuthors)

\* C6: in the text exported for fetched records, a record with N author names
\* and M affiliation entries shows every author as the bare name when N # M,
\* and when N = M shows author i decorated exactly when affiliation i matches
\* an organization, with that organization.
C6_AuthorAffiliationAlignment ==
    stage = "Rendered" =>
      /\ Len(AuthorsLines) = Len(RecordsWithAuthors)
      /\ \A k \in 1..Len(AuthorsLines) :
            LET rec == RecordsWithAuthors[k]
                line == AuthorsLines[k]
                items == Split(SubSeq(line, Len(AUTHORS_PREFIX) + 1, Len(line)), AUTHORS_SEP)
            IN  /\ Len(items) = Len(AuthorNames(rec))
                /\ \A i \in 1..Len(items) : items[i] = ExpectedAuthor(rec, i)

\* Two author names, three affiliation entries, the first of them Pfizer's.
C6_Witness ==
    /\ stage = "Rendered"
    /\ Len(medline) >= 1
    /\ Len(AuthorNames(medline[1])) = 2
    /\ AffilCount(medline[1]) = 3
    /\ normalize_affiliation(AffilEntry(medline[1], 1)) # None

C6_WitnessAligned ==
    /\ stage = "Rendered"
    /\ Len(medline) >= 1
    /\ Len(AuthorNames(medline[1])) = 2
    /\ AffilCount(medline[1]) = 2
    /\ normalize_affiliation(AffilEntry(medline[1], 1)) = None
    /\ normalize_affiliation(AffilEntry(medline[1], 2)) = Roche

\* The lines of the exported text.
TxtLines == Split(txt, << "\n" >>)

\* The lines grouped into blocks, a blank line ending each block.
RECURSIVE BlocksOf(_, _)
BlocksOf(lines, block) ==
    IF lines = << >> THEN (IF block = << >> THEN << >> ELSE << block >>)
    ELSE IF Head(lines) = << >>
         THEN << block >> \o BlocksOf(Tail(lines), << >>)
         ELSE BlocksOf(Tail(lines), Append(block, Head(lines)))

Blocks == BlocksOf(TxtLines, << >>)

\* The metadata line of a block: the line after the title line, unless that
\* is already the authors line or the abstract heading; empty when there is
\* none.
MetadataLine(block) ==
    IF Len(block) >= 2 /\ ~IsAuthorsLine(block[2]) /\ block[2] # ABSTRACT_LINE
    THEN block[2]
    ELSE << >>

\* A field of a record as text, surrounding whitespace removed.
Field(v) == IF v = None THEN << >> ELSE Strip(v)

\* The segment of a field: its label and the field.
Labelled(label, v) == label \o Field(v)

\* The segment of a field, left out when the field is empty.
SegmentIfAny(label, v) == IF Field(v) = << >> THEN << >> ELSE Labelled(label, v)

NonEmpty(seg) == seg # << >>

\* The metadata line of record r, given how its id segment is formed.
HeadOf(r, IdSegment(_, _)) ==
    Join(HEAD_SEP,
         SelectSeq(<< Field(r.journal), Field(r.date),
                      IdSegment(PMID_PREFIX, r.pmid),
                      IF Truthy(r.doi) THEN DOI_PREFIX \o r.doi ELSE << >> >>,
                   NonEmpty))

\* What C11 says of every rendered record, given how its id segment is formed.
MetadataLines(IdSegment(_, _)) ==
    (stage = "Rendered" /\ records # << >>) =>
      /\ Len(Blocks) = Len(records)
      /\ \A k \in 1..Len(records) :
            MetadataLine(Blocks[k]) = HeadOf(records[k], IdSegment)

\* C11: in the text to_txt returns, the metadata line of a record is its
\* journal, date, id ("PMID " and the identifier) and DOI ("DOI " and the
\* DOI) segments in that order joined by " | ", each segment left out when
\* its field is empty; a record whose four fields are all empty has no
\* metadata line.
C11_SegmentsOmittedWhenEmpty == MetadataLines(SegmentIfAny)

\* What the code does instead: the id segment is always there, a bare
\* "PMID " when the identifier is empty, so every record has a metadata line.
C11_AsCoded == MetadataLines(Labelled)

\* A record rendered with an empty identifier, and one with all four fields
\* empty.
C11_EmptyIdRendered ==
    /\ stage = "Rendered"
    /\ \E k \in 1..Len(records) :
          Field(records[k].pmid) = << >> /\ Field(records[k].journal) # << >>

C11_AllEmptyRendered ==
    /\ stage = "Rendered"
    /\ \E k \in 1..Len(records) :
          /\ Field(records[k].pmid) = << >> /\ Field(records[k].journal) = << >>
          /\ Field(records[k].date) = << >> /\ ~Truthy(records[k].doi)

====
